---- MODULE Spec2Model ----
(***************************************************************************)
(* Model of odoo_mcp.core.connection_pool.ConnectionPool: the asyncio      *)
(* connection pool with scoped acquisition, explicit release, the          *)
(* background health-check task and shutdown.                              *)
(*                                                                         *)
(* asyncio runs one task at a time, so everything a coroutine does between *)
(* two suspension points is one atomic step.  The suspension points of the *)
(* pool are: waiting for the contended lock, the caller's work inside the  *)
(* scope (the yield), asyncio.sleep, and the awaited close()/cleanup() of  *)
(* a connection (during which the pool lock stays held).                   *)
(***************************************************************************)
EXTENDS Integers, Sequences, FiniteSets, TLC

\* ---------------------------------------------------------------- bounds
MaxSize == 2          \* largest max_connections the configuration may give
Interval == 1         \* health_check_interval, in clock units

Callers == {"a", "b"}
HC == "hc"            \* the task running _health_check_loop
ADMIN == "admin"      \* the task calling start / stop / close / close_all
REL == "rel"          \* the task calling release_connection

\* A ConnectionWrapper of self.connections is named by its position in the
\* list; when a wrapper is removed, the names of the ones behind it move up
\* with them.  A reference to a wrapper that has left the list is Gone: no
\* code reads the fields of such a wrapper again.
NoConn == 0           \* None
Gone == 0 - 1

VARIABLES
    max_size,      \* self.max_size
    connections,   \* self.connections: the wrappers, each with its in_use,
                   \* age (time() - last_used, counted up to Interval + 1) and
                   \* closed (close()/cleanup() of its connection was invoked)
    lockHolder,    \* self._lock: the task holding it, or "none"
    pc,            \* where each caller is
    conn,          \* the wrapper whose connection the caller was yielded
    raised,        \* the exception the last step raised to its caller
    hcPc,          \* where the health-check task is ("off": not started, or ended)
    hcOld,         \* the wrappers w with current_time - w.last_used > interval
    hcSnapshot,    \* what is left of self.connections[:] in the running tick
    hcCur,         \* the wrapper whose close() the tick is awaiting
    hcSleep,       \* how much of the running asyncio.sleep is left
    cancelReq,     \* self._cleanup_task.cancel() was called and not yet delivered
    adminPc,       \* where the admin task is
    caIdx,         \* close_all: index of the wrapper whose cleanup() is awaited
    relPc,         \* where the releasing task is
    relArg,        \* the argument of the release_connection call it waits in
    peak,          \* most callers that were inside a scope at the same time
    \* one JSONRPCHandler and the tasks calling it
    uid,           \* self.uid
    hpc,           \* where each task is: "idle", in the "login" call, in the "rpc" call
    hop,           \* the method of the handler the task is in
    sentUid,       \* the uid in the arguments of the task's object.execute_kw call
    hout,          \* how the task's last call of the handler ended
    logins,        \* the number of common.login calls sent so far
    \* ConnectionPool.execute_kw
    req,           \* the model and method of each caller's running execute_kw
    work,          \* how connection.execute_kw ended, until the scope is left
    delivered,     \* the call (execute_kw, or a scope) that ended last: caller,
                   \* request, outcome
    acloses,       \* the number of async_client.aclose() calls made so far
    connUid,       \* the uid attribute of the connection of each wrapper, for
                   \* the callers that read it
    orphans,       \* health-check tasks that run and that self._cleanup_task
                   \* does not refer to any more
    \* the functions without state: their argument and what they gave
    arg,
    ret

execVars == <<req, work, delivered>>
fnVars == <<arg, ret>>

poolVars == <<max_size, orphans, connUid, connections, lockHolder, pc, conn, raised, hcPc, hcOld,
              hcSnapshot, hcCur, hcSleep, cancelReq, adminPc, caIdx, relPc, relArg, peak,
              execVars>>

handlerVars == <<uid, hpc, hop, sentUid, hout, logins, acloses>>

vars == <<poolVars, handlerVars, fnVars>>

\* What the calls of a handler other than cleanup() and close() leave alone.
outside == <<poolVars, fnVars, acloses>>

\* What get_connection, release_connection, the health check, close_all,
\* start and stop do not change: the configured size, the state inside a
\* connection's handler and the bookkeeping of execute_kw calls.
fixed == <<max_size, orphans, connUid, handlerVars, execVars, fnVars>>

hcVars == <<hcPc, hcOld, hcSnapshot, hcCur, hcSleep, cancelReq>>
adminVars == <<adminPc, caIdx>>
relVars == <<relPc, relArg>>

\* ---------------------------------------------------------------- helpers
Max(a, b) == IF a >= b THEN a ELSE b
Positions == 1..Len(connections)

InScope(c) == pc[c] \in {"held", "releasing"}
Holders(w) == {c \in Callers : InScope(c) /\ conn[c] = w}
NumHolders == Cardinality({c \in Callers : InScope(c)})

\* self._lock._waiters: the tasks suspended in "async with self._lock".
Waiting ==
    {c \in Callers : pc[c] \in {"acquiring", "releasing"}}
        \cup (IF hcPc = "lockwait" THEN {HC} ELSE {})
        \cup (IF adminPc = "ca_wait" THEN {ADMIN} ELSE {})
        \cup (IF relPc = "waiting" THEN {REL} ELSE {})

\* asyncio.Lock.acquire returns without suspending exactly when the lock is
\* not locked and nobody is queued for it.
LockFree == lockHolder = "none" /\ Waiting = {}
\* A queued task resumes once the lock is released.  asyncio wakes the
\* waiters first come, first served; the model lets any of them go first,
\* which includes that order.
Woken(p) == lockHolder = "none" /\ p \in Waiting

\* ------------------------------------------------- ConnectionWrapper, lines 25-28
\* self.in_use = False; self.last_used = time()
NewWrapper == [in_use |-> FALSE, age |-> 0, closed |-> FALSE]

\* conn.in_use = True (lines 96, 110)
MarkBusy(conns, w) == [conns EXCEPT ![w].in_use = TRUE]

\* wrapper.in_use = False; wrapper.last_used = time() (lines 130-131, 143-144)
MarkIdle(conns, w) == [conns EXCEPT ![w].in_use = FALSE, ![w].age = 0]

\* close() or cleanup() of the wrapper's connection is invoked
MarkClosed(conns, w) == [conns EXCEPT ![w].closed = TRUE]

\* ------------------------------------------------- get_connection, lines 94-99
\* A scan that forgets "if not conn.in_use" and takes the first wrapper.
FirstAny(conns) == IF Len(conns) > 0 THEN 1 ELSE NoConn

\* A scan that keeps the last idle wrapper it meets (no break).
LastIdle(conns) ==
    IF \E i \in 1..Len(conns) : ~conns[i].in_use
    THEN CHOOSE i \in 1..Len(conns) :
             ~conns[i].in_use /\ \A j \in (i + 1)..Len(conns) : conns[j].in_use
    ELSE NoConn

\* for conn in self.connections: if not conn.in_use: ... break
FirstIdle(conns) ==
    IF \E i \in 1..Len(conns) : ~conns[i].in_use
    THEN CHOOSE i \in 1..Len(conns) :
             ~conns[i].in_use /\ \A j \in 1..(i - 1) : conns[j].in_use
    ELSE NoConn

\* The capacity test written with <= instead of <.
CanCreateLoose(conns, size) == Len(conns) <= size

\* line 102: len(self.connections) < self.max_size
CanCreate(conns, size) == Len(conns) < size

\* A failed creation that leaves a wrapper in the list.
AfterFactoryLeak(conns) == Append(conns, NewWrapper)

\* lines 103-116: handler_factory (or ConnectionWrapper) raised before the
\* append of line 109; the except clause logs and raises NetworkError.
AfterFactoryFailure(conns) == conns

\* lines 92-121: the locked section of get_connection, run by caller c.
AcquireSection(c) ==
    LET w == FirstIdle(connections) IN
    IF w # NoConn
    THEN /\ connections' = MarkBusy(connections, w)
         /\ conn' = [conn EXCEPT ![c] = w]
         /\ pc' = [pc EXCEPT ![c] = "held"]
         /\ raised' = "none"
         /\ peak' = Max(peak, NumHolders + 1)
    ELSE IF CanCreate(connections, max_size)
    THEN \/ /\ LET n == Len(connections) + 1 IN      \* handler_factory returns
               /\ connections' = MarkBusy(Append(connections, NewWrapper), n)
               /\ conn' = [conn EXCEPT ![c] = n]
            /\ pc' = [pc EXCEPT ![c] = "held"]
            /\ raised' = "none"
            /\ peak' = Max(peak, NumHolders + 1)
         \/ /\ pc' = [pc EXCEPT ![c] = "idle"]        \* handler_factory raises
            /\ raised' = "NetworkError"
            /\ connections' = AfterFactoryFailure(connections)
            /\ UNCHANGED <<conn, peak>>
    ELSE /\ pc' = [pc EXCEPT ![c] = "idle"]
         /\ raised' = "PoolTimeoutError"
         /\ UNCHANGED <<connections, conn, peak>>

\* get_connection is entered; the lock is free, so the section runs at once.
GetConnection(c) ==
    /\ pc[c] = "idle"
    /\ LockFree
    /\ AcquireSection(c)
    /\ UNCHANGED <<fixed, lockHolder, hcVars, adminVars, relVars>>

\* get_connection is entered while the lock is taken: the caller queues.
GetConnectionWait(c) ==
    /\ pc[c] = "idle"
    /\ ~LockFree
    /\ pc' = [pc EXCEPT ![c] = "acquiring"]
    /\ raised' = "none"
    /\ UNCHANGED <<fixed, connections, lockHolder, conn, hcVars, adminVars,
                   relVars, peak>>

GetConnectionResume(c) ==
    /\ pc[c] = "acquiring"
    /\ Woken(c)
    /\ AcquireSection(c)
    /\ UNCHANGED <<fixed, lockHolder, hcVars, adminVars, relVars>>

\* ------------------------------------------------- get_connection, lines 126-131
\* A finally block that puts a wrapper missing from the list back into it.
ScopeReturned(conns, w) ==
    IF w = Gone THEN Append(conns, NewWrapper) ELSE MarkIdle(conns, w)

\* The finally block: wrapper.in_use = False; wrapper.last_used = time(),
\* whether or not the wrapper is still in self.connections; the list is
\* left as it is.
ScopeReleased(conns, w) == IF w = Gone THEN conns ELSE MarkIdle(conns, w)

ScopeRelease(c) ==
    /\ connections' = ScopeReleased(connections, conn[c])
    /\ conn' = [conn EXCEPT ![c] = NoConn]
    /\ pc' = [pc EXCEPT ![c] = "idle"]
    /\ raised' = "none"
    /\ UNCHANGED peak

\* The caller's work ends (it returns, raises, or the caller is cancelled
\* at the yield) and the finally block finds the lock free.
ExitScope(c) ==
    /\ pc[c] = "held"
    /\ LockFree
    /\ ScopeRelease(c)
    /\ UNCHANGED <<fixed, lockHolder, hcVars, adminVars, relVars>>

\* The same, but the lock is taken: the finally block queues for it.
ExitScopeWait(c) ==
    /\ pc[c] = "held"
    /\ ~LockFree
    /\ pc' = [pc EXCEPT ![c] = "releasing"]
    /\ raised' = "none"
    /\ UNCHANGED <<fixed, connections, lockHolder, conn, hcVars, adminVars,
                   relVars, peak>>

ExitScopeResume(c) ==
    /\ pc[c] = "releasing"
    /\ Woken(c)
    /\ ScopeRelease(c)
    /\ UNCHANGED <<fixed, lockHolder, hcVars, adminVars, relVars>>

\* The caller's task is cancelled while it waits for the lock: the
\* CancelledError leaves "async with self._lock" (line 92 or line 129)
\* before its body ran.
CancelWaiting(c) ==
    /\ pc[c] \in {"acquiring", "releasing"}
    /\ pc' = [pc EXCEPT ![c] = "idle"]
    /\ conn' = [conn EXCEPT ![c] = NoConn]
    /\ raised' = "CancelledError"
    /\ UNCHANGED <<fixed, connections, lockHolder, hcVars, adminVars, relVars, peak>>

\* ------------------------------------------------- release_connection, lines 133-145
\* for wrapper in self.connections: if wrapper.connection == connection: ...
ReleasedAll(conns, w) ==
    [i \in 1..Len(conns) |-> [conns[i] EXCEPT !.in_use = FALSE, !.age = 0]]

Released(conns, w) == IF w \in 1..Len(conns) THEN MarkIdle(conns, w) ELSE conns

ReleaseSection(w) ==
    /\ connections' = Released(connections, w)
    /\ raised' = "none"
    /\ UNCHANGED <<fixed, pc, conn, lockHolder, hcVars, adminVars, peak>>

\* release_connection is an ordinary coroutine: whoever calls it, a caller
\* inside its scope, a caller after its scope or a task of its own, the
\* pool sees the same call.  The model runs it in the task REL.  Its
\* argument is a connection that was handed out: one a wrapper of the list
\* owns, or (Gone) one that no wrapper of the list owns any more.
Releasable == Positions \cup {Gone}

ReleaseConnection ==
    /\ relPc = "idle"
    /\ LockFree
    /\ \E w \in Releasable : ReleaseSection(w)
    /\ UNCHANGED relVars

\* The lock is taken: the call queues for it.
ReleaseConnectionWait ==
    /\ relPc = "idle"
    /\ ~LockFree
    /\ \E w \in Releasable : relArg' = w
    /\ relPc' = "waiting"
    /\ raised' = "none"
    /\ UNCHANGED <<fixed, connections, lockHolder, pc, conn, hcVars, adminVars, peak>>

ReleaseConnectionResume ==
    /\ relPc = "waiting"
    /\ Woken(REL)
    /\ relPc' = "idle"
    /\ relArg' = NoConn
    /\ ReleaseSection(relArg)

\* ------------------------------------------------- _health_check_loop, lines 157-182
\* line 169: (current_time - wrapper.last_used) > self.health_check_interval
TooOld(a) == a > Interval

\* The test of lines 167-170 without "not wrapper.in_use".
IsOld(w, conns, old) == w \in old

\* lines 167-170.  old holds the wrappers for which line 169 is true: the
\* tick reads current_time once (line 163) and last_used cannot change
\* while the tick holds the lock.
IsStale(w, conns, old) == ~conns[w].in_use /\ w \in old

\* The part of the snapshot from its first stale wrapper on.
RECURSIVE FromFirstStale(_, _, _)
FromFirstStale(snap, conns, old) ==
    IF snap = <<>> THEN <<>>
    ELSE IF IsStale(Head(snap), conns, old) THEN snap
    ELSE FromFirstStale(Tail(snap), conns, old)

\* The for loop runs over snap with the lock held until it reaches a
\* wrapper to close (and suspends in close()) or the end of the snapshot
\* (and the task releases the lock and sleeps again).
HcScan(snap, conns, old) ==
    LET rest == FromFirstStale(snap, conns, old) IN
    /\ IF rest = <<>>
       THEN /\ hcPc' = "sleeping"
            /\ hcSleep' = Interval
            /\ hcOld' = {}
            /\ hcCur' = NoConn
            /\ hcSnapshot' = <<>>
            /\ lockHolder' = "none"
            /\ connections' = conns
       ELSE /\ hcPc' = "closing"
            /\ hcCur' = Head(rest)
            /\ hcSnapshot' = Tail(rest)
            /\ lockHolder' = HC
            /\ hcSleep' = 0
            /\ hcOld' = {w \in old : \E i \in 1..Len(Tail(rest)) : Tail(rest)[i] = w}
            /\ connections' = MarkClosed(conns, Head(rest))
    /\ raised' = "none"
    /\ UNCHANGED <<fixed, pc, cancelReq, adminVars, peak>>

\* line 163 and line 169 for every wrapper of the list.
OldNow == {w \in Positions : TooOld(connections[w].age)}

\* self.connections[:]
Snapshot == [i \in Positions |-> i]

\* asyncio.sleep(self.health_check_interval) has ended and the lock is free.
HcTick ==
    /\ hcPc = "sleeping"
    /\ ~cancelReq
    /\ hcSleep = 0
    /\ LockFree
    /\ HcScan(Snapshot, connections, OldNow)
    /\ UNCHANGED <<conn, relVars>>

HcTickWait ==
    /\ hcPc = "sleeping"
    /\ ~cancelReq
    /\ hcSleep = 0
    /\ ~LockFree
    /\ hcPc' = "lockwait"
    /\ raised' = "none"
    /\ UNCHANGED <<fixed, connections, lockHolder, pc, conn, hcOld, hcSnapshot,
                   hcCur, hcSleep, cancelReq, adminVars, relVars, peak>>

HcTickResume ==
    /\ hcPc = "lockwait"
    /\ ~cancelReq
    /\ Woken(HC)
    /\ HcScan(Snapshot, connections, OldNow)
    /\ UNCHANGED <<conn, relVars>>

\* self.connections.remove(wrapper): the wrappers behind w move up, and so
\* do the references to them; the references to w are Gone.
Remove(conns, w) == [i \in 1..(Len(conns) - 1) |-> IF i < w THEN conns[i] ELSE conns[i + 1]]
Moved(r, w) == IF r = w THEN Gone ELSE IF r > w THEN r - 1 ELSE r
MovedSeq(q, w) == [i \in 1..Len(q) |-> Moved(q[i], w)]

\* lines 173-175: wrapper.connection.close() returned; the wrapper is removed.
Evict(conns, w) == Remove(conns, w)

HcCloseDone ==
    /\ hcPc = "closing"
    /\ ~cancelReq
    /\ LET after == Evict(connections, hcCur)
           gone == Len(after) < Len(connections) IN
       /\ HcScan(IF gone THEN MovedSeq(hcSnapshot, hcCur) ELSE hcSnapshot,
                 after,
                 IF gone THEN {Moved(w, hcCur) : w \in hcOld} ELSE hcOld)
       /\ conn' = IF gone THEN [c \in Callers |-> Moved(conn[c], hcCur)] ELSE conn
       /\ relArg' = IF gone THEN Moved(relArg, hcCur) ELSE relArg
    /\ UNCHANGED relPc

\* A tick that a failing close() ends: the rest of the snapshot is dropped.
TickAbandoned(snap) == <<>>

\* lines 176-177: the except clause is inside the for loop, which goes on
\* with the rest of the snapshot.
AfterCloseFailure(snap) == snap

\* lines 176-177: close() raised; the error is logged, the wrapper stays.
HcCloseFails ==
    /\ hcPc = "closing"
    /\ ~cancelReq
    /\ HcScan(AfterCloseFailure(hcSnapshot), connections, hcOld)
    /\ UNCHANGED <<conn, relVars>>

\* asyncio.sleep(60) of line 182, in the unit of Interval.
Recovery == 1

\* A loop that an unexpected error ends.
EndsOnError(at) == "off"

\* lines 180-182: an Exception that leaves the try body is logged and the
\* task sleeps in the except clause, inside the while loop.
AfterError(at) == "backoff"

\* An Exception other than a failure of close() is raised in the locked
\* part of a tick (lines 162-170): "async with" releases the lock and the
\* except clause of line 180 takes it.
HcTickFails ==
    /\ hcPc \in {"sleeping", "lockwait"}
    /\ ~cancelReq
    /\ hcPc = "sleeping" => (hcSleep = 0 /\ LockFree)
    /\ hcPc = "lockwait" => Woken(HC)
    /\ hcPc' = AfterError(hcPc)
    /\ hcSleep' = Recovery
    /\ raised' = "none"
    /\ UNCHANGED <<fixed, connections, lockHolder, pc, conn, hcOld, hcSnapshot, hcCur,
                   cancelReq, adminVars, relVars, peak>>

\* The sleep of line 182 has ended: the while loop starts over at line 161.
HcBackoffEnds ==
    /\ hcPc = "backoff"
    /\ ~cancelReq
    /\ hcSleep = 0
    /\ hcPc' = "sleeping"
    /\ hcSleep' = Interval
    /\ raised' = "none"
    /\ UNCHANGED <<fixed, connections, lockHolder, pc, conn, hcOld, hcSnapshot, hcCur,
                   cancelReq, adminVars, relVars, peak>>

\* A cancelled task that leaves "async with" without releasing the lock.
LockKept(at, holder) == holder

\* The lock after the CancelledError has left the loop body: "async with
\* self._lock" (line 162) releases it when the task was inside it.
LockAfterCancel(at, holder) == IF at = "closing" THEN "none" ELSE holder

\* lines 178-179: the cancellation requested by stop()/close() is delivered
\* at the task's suspension point; the lock, if held, is released on the
\* way out of "async with".  In the sleep of line 182 the CancelledError
\* leaves the except clause and the coroutine with it.
HcCancelled ==
    /\ cancelReq
    /\ hcPc \in {"sleeping", "lockwait", "closing", "backoff"}
    /\ hcPc' = "off"
    /\ cancelReq' = FALSE
    /\ lockHolder' = LockAfterCancel(hcPc, lockHolder)
    /\ hcCur' = NoConn
    /\ hcSnapshot' = <<>>
    /\ hcOld' = {}
    /\ hcSleep' = 0
    /\ raised' = "none"
    /\ UNCHANGED <<fixed, connections, pc, conn, adminVars, relVars, peak>>

\* ------------------------------------------------- start, lines 62-65
Start ==
    /\ adminPc = "idle"
    /\ hcPc = "off"
    /\ hcPc' = "sleeping"
    /\ hcSleep' = Interval
    /\ raised' = "none"
    /\ UNCHANGED <<fixed, connections, lockHolder, pc, conn, hcOld, hcSnapshot,
                   hcCur, cancelReq, adminVars, relVars, peak>>

MaxOrphans == 1         \* start() calls followed that replace a running task

\* start() while the task of an earlier start() is asleep in line 161: line
\* 64 creates a second task and overwrites self._cleanup_task, the only
\* reference to the first, which goes on running.  The ticks of a task
\* without reference are followed no further.
StartAgain ==
    /\ adminPc = "idle"
    /\ hcPc = "sleeping"
    /\ orphans < MaxOrphans
    /\ orphans' = orphans + 1
    /\ hcSleep' = Interval
    /\ raised' = "none"
    /\ UNCHANGED <<max_size, connUid, handlerVars, execVars, fnVars, connections,
                   lockHolder, pc, conn, hcPc, hcOld, hcSnapshot, hcCur, cancelReq, adminVars, relVars,
                   peak>>

\* The health-check tasks of the pool that have not ended.
AliveTasks == orphans + (IF hcPc = "off" THEN 0 ELSE 1)

\* ------------------------------------------------- close_all, lines 147-155
\* The lock is taken; cleanup() of the first wrapper is awaited, or the
\* empty list is cleared at once.
CloseAllSection ==
    /\ IF connections = <<>>
       THEN /\ adminPc' = "idle"
            /\ caIdx' = 0
            /\ lockHolder' = "none"
            /\ connections' = connections
       ELSE /\ adminPc' = "cleanup"
            /\ caIdx' = 1
            /\ lockHolder' = ADMIN
            /\ connections' = MarkClosed(connections, 1)
    /\ raised' = "none"
    /\ UNCHANGED <<fixed, pc, conn, hcVars, relVars, peak>>

CloseAllEnter ==
    IF LockFree
    THEN CloseAllSection
    ELSE /\ adminPc' = "ca_wait"
         /\ raised' = "none"
         /\ UNCHANGED <<fixed, connections, lockHolder, pc, conn, hcVars, caIdx,
                        relVars, peak>>

CloseAll ==
    /\ adminPc = "idle"
    /\ CloseAllEnter

CloseAllResume ==
    /\ adminPc = "ca_wait"
    /\ Woken(ADMIN)
    /\ CloseAllSection

\* line 155: self.connections.clear()
Cleared(conns) == <<>>

\* A loop that a failing cleanup() ends.
MoreIfOk(ok, idx, conns) == ok /\ idx < Len(conns)

\* lines 150-154: whether cleanup() returned (ok) or raised and the except
\* clause logged the error, the for loop goes on while wrappers are left.
MoreToClean(ok, idx, conns) == idx < Len(conns)

\* cleanup() of wrapper caIdx returned or raised (the error is logged): the
\* loop goes on to the next wrapper, or clears the list and frees the lock.
CleanupDone ==
    /\ adminPc = "cleanup"
    /\ \E ok \in BOOLEAN :
         IF MoreToClean(ok, caIdx, connections)
         THEN /\ caIdx' = caIdx + 1
              /\ connections' = MarkClosed(connections, caIdx + 1)
              /\ UNCHANGED <<conn, relArg, adminPc, lockHolder>>
         ELSE /\ connections' = Cleared(connections)
              /\ conn' = [c \in Callers |->
                            IF conn[c] \in 1..Len(connections') THEN conn[c]
                            ELSE IF conn[c] = NoConn THEN NoConn ELSE Gone]
              /\ relArg' = IF relArg \in 1..Len(connections') THEN relArg
                           ELSE IF relArg = NoConn THEN NoConn ELSE Gone
              /\ caIdx' = 0
              /\ adminPc' = "idle"
              /\ lockHolder' = "none"
    /\ raised' = "none"
    /\ UNCHANGED <<fixed, pc, hcVars, relPc, peak>>

\* ------------------------------------------------- stop / close, lines 67-76, 218-230
\* A stop() that goes on to close_all() without awaiting the task.
NotAwaited == TRUE

\* lines 69-74: there is no task to wait for (self._cleanup_task is None, or
\* the task has ended), or "await self._cleanup_task" has returned.
Terminated == hcPc = "off"

\* if self._cleanup_task: cancel it and await it; then close_all().
Stop ==
    /\ adminPc = "idle"
    /\ IF Terminated
       THEN CloseAllEnter
       ELSE /\ cancelReq' = TRUE
            /\ adminPc' = "stopping"
            /\ raised' = "none"
            /\ UNCHANGED <<fixed, connections, lockHolder, pc, conn, hcPc, hcOld,
                           hcSnapshot, hcCur, hcSleep, caIdx, relVars, peak>>

StopResume ==
    /\ adminPc = "stopping"
    /\ Terminated
    /\ CloseAllEnter

\* ------------------------------------------------- the clock
\* One unit of time passes: last_used of every wrapper is one unit older
\* and the running sleep one unit shorter.  Ages beyond Interval + 1
\* compare like Interval + 1 (line 169 is the one place that reads them).
Older(a) == IF a <= Interval THEN a + 1 ELSE a

Tick ==
    /\ connections' = [i \in Positions |-> [connections[i] EXCEPT !.age = Older(@)]]
    /\ hcSleep' = IF hcSleep > 0 THEN hcSleep - 1 ELSE 0
    /\ raised' = "none"
    /\ UNCHANGED <<fixed, lockHolder, pc, conn, hcPc, hcOld, hcSnapshot, hcCur,
                   cancelReq, adminVars, relVars, peak>>

\* ------------------------------------------------- exceptions.py
\* Every class with the default code of the base class.
ErrorCodeFlat(kind) == 0 - 32000

\* The code each exception class passes to OdooMCPError.__init__.
ErrorCode(kind) ==
    CASE kind = "OdooMCPError" -> 0 - 32000
      [] kind = "AuthError" -> 0 - 32001
      [] kind = "NetworkError" -> 0 - 32002
      [] kind = "ProtocolError" -> 0 - 32003
      [] kind = "ConfigurationError" -> 0 - 32004
      [] kind = "OdooValidationError" -> 0 - 32007
      [] kind = "OdooRecordNotFoundError" -> 0 - 32008
      [] kind = "PoolTimeoutError" -> 0 - 32009
      [] kind = "OdooMethodNotFoundError" -> 0 - 32016

\* An exception object: its class, code, message and original_exception (the
\* class of the cause, "none" without one).  Texts are sequences of pieces.
Error(kind, text, cause) ==
    [kind |-> kind, code |-> ErrorCode(kind), text |-> text, cause |-> cause]

\* An exception that is not an OdooMCPError: it has no code.
Raw(kind, text) == [kind |-> kind, code |-> 0, text |-> text, cause |-> "none"]

\* A call that returned value v.
Returned(v) == [kind |-> "return", code |-> 0, text |-> <<v>>, cause |-> "none"]
NoOutcome == [kind |-> "none", code |-> 0, text |-> <<>>, cause |-> "none"]

\* ------------------------------------------------- JSONRPCHandler
Tasks == {"t1", "t2"}
None == "None"
Ids == {"u1", "u2"}                  \* user ids the backend may answer with
LoginResults == Ids \cup {"False"}   \* what common.login may return
MaxLogins == 3                       \* login calls followed

\* The transport's exceptions: timeout, connection refused, and the
\* raise_for_status() of line 98.
TransportFailures == {"TimeoutException", "ConnectError", "HTTPStatusError"}

\* The "error" member of a response: code, message and data.debug.
RemoteErrors ==
    [code : {"200"}, message : {<<"denied">>}, debug : {<<>>, <<"trace">>, <<"trace", "-">>}]

\* What the awaited post may bring.
Responses(results) ==
    [type : {"result"}, value : results]
        \cup [type : {"error"}, error : RemoteErrors]
        \cup [type : {"fail"}, exc : TransportFailures]

\* str.strip(" -"): the pieces " " and "-" are taken off both ends.
RECURSIVE LStrip(_)
LStrip(t) == IF t # <<>> /\ Head(t) \in {" ", "-"} THEN LStrip(Tail(t)) ELSE t
RECURSIVE RStrip(_)
RStrip(t) ==
    IF t # <<>> /\ t[Len(t)] \in {" ", "-"} THEN RStrip(SubSeq(t, 1, Len(t) - 1)) ELSE t
Strip(t) == RStrip(LStrip(t))

\* lines 101-105: f"Code {error_code}: {error_message} - {error_debug_info}".strip(" -")
FullError(e) ==
    Strip(<<"Code", " ", e.code, ":", " ">> \o e.message \o <<" ", "-", " ">> \o e.debug)

\* lines 106-109: the ProtocolError raised inside the try block.
RemoteFailure(e) ==
    Error("ProtocolError", <<"JSON-RPC Error Response: ">> \o FullError(e), "Exception")

\* lines 110-113: "except Exception as e" around the whole try block
\* re-raises whatever was raised in it, the ProtocolError of line 106
\* included, as an OdooMCPError whose message ends with str(e).
Wrapped(e) ==
    Error("OdooMCPError",
          <<"An unexpected error occurred during JSON-RPC call: ">> \o e.text,
          e.kind)

\* lines 94-116: how call() ends for the response the transport brought.
CallOutcome(resp) ==
    CASE resp.type = "fail" -> Wrapped(Raw(resp.exc, <<resp.exc>>))
      [] resp.type = "error" -> Wrapped(RemoteFailure(resp.error))
      [] resp.type = "result" -> Returned(resp.value)

\* A login for every call.
AlwaysLogin(u) == TRUE

\* line 69: if self.uid is None
NeedsLogin(u) == u = None

\* line 75: not auth_result
Falsy(r) == r \in {None, "False"}

\* An assignment of line 79 made before the test of line 75.
LoginUidUnchecked(u, r) == r

\* lines 75-79: self.uid after the login call returned r.
LoginUid(u, r) == IF Falsy(r) THEN u ELSE r

\* line 149: uid if uid is not None else self.uid
CallUid(given, u) == IF given # None THEN given ELSE u

\* line 70: the login call is sent.
SendLogin(t, op) ==
    /\ logins < MaxLogins
    /\ hpc' = [hpc EXCEPT ![t] = "login"]
    /\ hop' = [hop EXCEPT ![t] = op]
    /\ logins' = logins + 1
    /\ hout' = [hout EXCEPT ![t] = NoOutcome]
    /\ UNCHANGED <<uid, sentUid>>

\* line 163: the object.execute_kw call is sent with call_uid.
SendExecute(t, given, u) ==
    /\ hpc' = [hpc EXCEPT ![t] = "rpc"]
    /\ hop' = [hop EXCEPT ![t] = "execute_kw"]
    /\ sentUid' = [sentUid EXCEPT ![t] = CallUid(given, u)]
    /\ hout' = [hout EXCEPT ![t] = NoOutcome]

\* ensure_authenticated(), lines 67-80.
EnsureAuthenticated(t) ==
    /\ hpc[t] = "idle"
    /\ IF NeedsLogin(uid)
       THEN SendLogin(t, "ensure_authenticated")
       ELSE /\ hout' = [hout EXCEPT ![t] = Returned(uid)]
            /\ hop' = [hop EXCEPT ![t] = "ensure_authenticated"]
            /\ UNCHANGED <<uid, hpc, sentUid, logins>>
    /\ UNCHANGED outside

\* execute_kw(..., uid=given), lines 148-163.  The argument of the task's
\* call is kept in sentUid while its login is on the way.
ExecuteKw(t, given) ==
    /\ hpc[t] = "idle"
    /\ IF NeedsLogin(uid)
       THEN /\ logins < MaxLogins
            /\ hpc' = [hpc EXCEPT ![t] = "login"]
            /\ hop' = [hop EXCEPT ![t] = "execute_kw"]
            /\ logins' = logins + 1
            /\ hout' = [hout EXCEPT ![t] = NoOutcome]
            /\ sentUid' = [sentUid EXCEPT ![t] = given]
            /\ UNCHANGED uid
       ELSE /\ SendExecute(t, given, uid)
            /\ UNCHANGED <<uid, logins>>
    /\ UNCHANGED outside

\* call(service, method, args) called directly, lines 82-116.
Call(t) ==
    /\ hpc[t] = "idle"
    /\ hpc' = [hpc EXCEPT ![t] = "rpc"]
    /\ hop' = [hop EXCEPT ![t] = "call"]
    /\ hout' = [hout EXCEPT ![t] = NoOutcome]
    /\ UNCHANGED <<uid, sentUid, logins, outside>>

\* The login call of lines 70-74 ends: it raised, or it returned
\* auth_result, which is tested (75-78) and stored (79); ensure_authenticated
\* then returns self.uid, and an execute_kw goes on to its own call.
LoginReturns(t, resp) ==
    /\ hpc[t] = "login"
    /\ LET out == CallOutcome(resp) IN
       IF out.kind # "return"
       THEN /\ hout' = [hout EXCEPT ![t] = out]
            /\ hpc' = [hpc EXCEPT ![t] = "idle"]
            /\ UNCHANGED <<uid, hop, sentUid>>
       ELSE IF Falsy(resp.value)
       THEN /\ hout' = [hout EXCEPT ![t] =
                          Error("AuthError", <<"Authentication failed">>, "none")]
            /\ hpc' = [hpc EXCEPT ![t] = "idle"]
            /\ uid' = LoginUid(uid, resp.value)
            /\ UNCHANGED <<hop, sentUid>>
       ELSE /\ uid' = LoginUid(uid, resp.value)
            /\ IF hop[t] = "execute_kw"
               THEN /\ SendExecute(t, sentUid[t], uid')
                    /\ UNCHANGED hop
               ELSE /\ hout' = [hout EXCEPT ![t] = Returned(uid')]
                    /\ hpc' = [hpc EXCEPT ![t] = "idle"]
                    /\ UNCHANGED <<hop, sentUid>>
    /\ UNCHANGED <<logins, outside>>

\* The call of line 163 (or a direct call) ends.
RpcReturns(t, resp) ==
    /\ hpc[t] = "rpc"
    /\ hout' = [hout EXCEPT ![t] = CallOutcome(resp)]
    /\ hpc' = [hpc EXCEPT ![t] = "idle"]
    /\ UNCHANGED <<uid, hop, sentUid, logins, outside>>

MaxCloses == 2          \* aclose() calls followed

\* lines 167-171: aclose() returned (ok), or it raised and the except
\* clause logged a warning; cleanup returns None either way.
CleanupOutcome(ok) == Returned(None)

\* lines 175-177: aclose() returned, or it raised and nothing catches it.
CloseOutcome(ok) == IF ok THEN Returned(None) ELSE Raw("Exception", <<"aclose">>)

\* cleanup(), lines 165-171: a failure of aclose() is logged.
Cleanup(t) ==
    /\ hpc[t] = "idle"
    /\ acloses < MaxCloses
    /\ acloses' = acloses + 1
    /\ hop' = [hop EXCEPT ![t] = "cleanup"]
    /\ \E ok \in BOOLEAN :
         hout' = [hout EXCEPT ![t] = CleanupOutcome(ok)]
    /\ UNCHANGED <<uid, hpc, sentUid, logins, poolVars, fnVars>>

\* close(), lines 173-177: no try block, a failure of aclose() is raised.
Close(t) ==
    /\ hpc[t] = "idle"
    /\ acloses < MaxCloses
    /\ acloses' = acloses + 1
    /\ hop' = [hop EXCEPT ![t] = "close"]
    /\ \E ok \in BOOLEAN :
         hout' = [hout EXCEPT ![t] = CloseOutcome(ok)]
    /\ UNCHANGED <<uid, hpc, sentUid, logins, poolVars, fnVars>>

\* line 43 and the tasks before their first call.
HandlerInit ==
    /\ uid = None
    /\ hpc = [t \in Tasks |-> "idle"]
    /\ hop = [t \in Tasks |-> "none"]
    /\ sentUid = [t \in Tasks |-> None]
    /\ hout = [t \in Tasks |-> NoOutcome]
    /\ logins = 0
    /\ acloses = 0

\* No function has been applied.
NoArg == [fn |-> "none"]
FnInit == arg = NoArg /\ ret = NoArg

HandlerNext ==
    \/ \E t \in Tasks : EnsureAuthenticated(t)
    \/ \E t \in Tasks : \E given \in Ids \cup {None} : ExecuteKw(t, given)
    \/ \E t \in Tasks : Call(t)
    \/ \E t \in Tasks : \E resp \in Responses(LoginResults \cup {None}) : LoginReturns(t, resp)
    \/ \E t \in Tasks : \E resp \in Responses({"rows", None}) : RpcReturns(t, resp)
    \/ \E t \in Tasks : Cleanup(t)
    \/ \E t \in Tasks : Close(t)

\* ------------------------------------------------- ConnectionPool.execute_kw, lines 184-216
Requests == [model : {"res.partner"}, method : {"read", "unlink"}]
NoReq == [model |-> "none", method |-> "none"]
NoDelivery == [caller |-> "none", req |-> NoReq, out |-> NoOutcome]

\* How the awaited connection.execute_kw (line 212) may end: with rows, with
\* the AuthError of a failed login, with the error of a failed call.
WorkOutcomes ==
    {Returned("rows"),
     Error("AuthError", <<"Authentication failed">>, "none"),
     Wrapped(Raw("TimeoutException", <<"TimeoutException">>))}

\* The errors get_connection raises (lines 116 and 121).
PoolError(kind) ==
    Error(kind,
          IF kind = "PoolTimeoutError" THEN <<"No connections available in pool">>
          ELSE <<"Failed to create new connection: ">>,
          "none")

\* lines 215-216: raise NetworkError(f"Failed to execute {method} on {model}: {str(e)}")
ExecFailure(r, e) ==
    Error("NetworkError",
          <<"Failed to execute ", r.method, " on ", r.model, ": ">> \o e.text,
          "none")

\* An execute_kw without its except clause.
DeliverAsIs(r, out) == out

\* lines 210-216: the result is returned, an exception is re-raised as NetworkError.
Deliver(r, out) == IF out.kind = "return" THEN out ELSE ExecFailure(r, out)

\* The locked section of the get_connection of line 211, and what
\* execute_kw does with an error it raises.
ExecAcquire(c, r) ==
    /\ AcquireSection(c)
    /\ IF raised' = "none"
       THEN /\ req' = [req EXCEPT ![c] = r]
            /\ UNCHANGED delivered
       ELSE /\ req' = [req EXCEPT ![c] = NoReq]
            /\ delivered' = [caller |-> c, req |-> r, out |-> Deliver(r, PoolError(raised'))]
    /\ UNCHANGED <<max_size, orphans, connUid, lockHolder, hcVars, adminVars, relVars, handlerVars, fnVars, work>>

PoolExecuteKw(c, r) ==
    /\ pc[c] = "idle"
    /\ LockFree
    /\ ExecAcquire(c, r)

PoolExecuteKwWait(c, r) ==
    /\ pc[c] = "idle"
    /\ ~LockFree
    /\ pc' = [pc EXCEPT ![c] = "acquiring"]
    /\ req' = [req EXCEPT ![c] = r]
    /\ raised' = "none"
    /\ UNCHANGED <<max_size, orphans, connUid, connections, lockHolder, conn, hcVars, adminVars, relVars,
                   peak, handlerVars, fnVars, work, delivered>>

PoolExecuteKwResume(c) ==
    /\ pc[c] = "acquiring"
    /\ Woken(c)
    /\ ExecAcquire(c, req[c])

\* The finally block has run: the call ends with what the work gave.
ExecLeave(c, out) ==
    /\ ScopeRelease(c)
    /\ delivered' = [caller |-> c, req |-> req[c], out |-> Deliver(req[c], out)]
    /\ req' = [req EXCEPT ![c] = NoReq]
    /\ work' = [work EXCEPT ![c] = NoOutcome]
    /\ UNCHANGED <<max_size, orphans, connUid, lockHolder, hcVars, adminVars, relVars, handlerVars, fnVars>>

\* connection.execute_kw ends and the finally block finds the lock free.
WorkEnds(c, out) ==
    /\ pc[c] = "held"
    /\ LockFree
    /\ ExecLeave(c, out)

\* The same, but the finally block queues for the lock.
WorkEndsWait(c, out) ==
    /\ pc[c] = "held"
    /\ ~LockFree
    /\ pc' = [pc EXCEPT ![c] = "releasing"]
    /\ work' = [work EXCEPT ![c] = out]
    /\ raised' = "none"
    /\ UNCHANGED <<max_size, orphans, connUid, connections, lockHolder, conn, hcVars, adminVars, relVars,
                   peak, handlerVars, fnVars, req, delivered>>

WorkEndsResume(c) ==
    /\ pc[c] = "releasing"
    /\ Woken(c)
    /\ ExecLeave(c, work[c])

ExecInit ==
    /\ req = [c \in Callers |-> NoReq]
    /\ work = [c \in Callers |-> NoOutcome]
    /\ delivered = NoDelivery

\* The pool used through execute_kw alone, with its health check running.
NextExec ==
    \/ \E c \in Callers : \E r \in Requests : PoolExecuteKw(c, r)
    \/ \E c \in Callers : \E r \in Requests : PoolExecuteKwWait(c, r)
    \/ \E c \in Callers : PoolExecuteKwResume(c)
    \/ \E c \in Callers : \E out \in WorkOutcomes : WorkEnds(c, out)
    \/ \E c \in Callers : \E out \in WorkOutcomes : WorkEndsWait(c, out)
    \/ \E c \in Callers : WorkEndsResume(c)
    \/ HcTick
    \/ HcTickWait
    \/ HcTickResume
    \/ HcCloseDone
    \/ HcCloseFails
    \/ Start
    \/ Tick

\* ------------------------------------------------- a scope with its body, lines 124-131
\* How the caller's own work inside "async with pool.get_connection()" may
\* end: it returns, or it raises an error of its own or of the handler.
BodyOutcomes ==
    {Returned("done"),
     Raw("ValueError", <<"bad value">>),
     Error("AuthError", <<"Authentication failed">>, "none"),
     Error("NetworkError", <<"down">>, "none")}

\* A manager that turns what the body raised into a NetworkError.
Rewrapped(out) ==
    IF out.kind = "return" THEN out ELSE Error("NetworkError", out.text, out.kind)

\* The exception is thrown into the generator at the yield (line 124); the
\* finally block (126-131) has no except clause and raises nothing of its
\* own, so the same exception leaves the context manager.
Propagated(out) == out

\* The finally block has run: the scope ends as the body did.
ScopeLeave(c, out) ==
    /\ ScopeRelease(c)
    /\ delivered' = [caller |-> c, req |-> NoReq, out |-> Propagated(out)]
    /\ work' = [work EXCEPT ![c] = NoOutcome]
    /\ UNCHANGED <<max_size, orphans, connUid, lockHolder, hcVars, adminVars, relVars, handlerVars, fnVars,
                   req>>

\* The body ends and the finally block finds the lock free.
BodyEnds(c, out) ==
    /\ pc[c] = "held"
    /\ LockFree
    /\ ScopeLeave(c, out)

\* The same, but the finally block queues for the lock.
BodyEndsWait(c, out) ==
    /\ pc[c] = "held"
    /\ ~LockFree
    /\ pc' = [pc EXCEPT ![c] = "releasing"]
    /\ work' = [work EXCEPT ![c] = out]
    /\ raised' = "none"
    /\ UNCHANGED <<max_size, orphans, connUid, connections, lockHolder, conn, hcVars, adminVars, relVars,
                   peak, handlerVars, fnVars, req, delivered>>

BodyEndsResume(c) ==
    /\ pc[c] = "releasing"
    /\ Woken(c)
    /\ ScopeLeave(c, work[c])

\* The pool used through get_connection scopes, with its health check running.
NextScope ==
    \/ \E c \in Callers : GetConnection(c)
    \/ \E c \in Callers : GetConnectionWait(c)
    \/ \E c \in Callers : GetConnectionResume(c)
    \/ \E c \in Callers : \E out \in BodyOutcomes : BodyEnds(c, out)
    \/ \E c \in Callers : \E out \in BodyOutcomes : BodyEndsWait(c, out)
    \/ \E c \in Callers : BodyEndsResume(c)
    \/ HcTick
    \/ HcTickWait
    \/ HcTickResume
    \/ HcCloseDone
    \/ HcCloseFails
    \/ Start
    \/ Tick

\* ------------------------------------------------- execute_kw of the handler, lines 148-163
\* Dictionaries are functions from keys to values.
EmptyMap == [k \in {} |-> None]
Put(m, k, v) == [x \in DOMAIN m \cup {k} |-> IF x = k THEN v ELSE m[x]]
Without(m, k) == [x \in DOMAIN m \ {k} |-> m[x]]

\* The configuration of the handler (lines 36-40) and the model, method and
\* args of the call followed.
Database == "db"
Username == "admin"
Password == "pw"
TheModel == "res.partner"
TheMethod == "search_read"
TheArgs == << <<>> >>

\* The context entries and kwargs maps a caller may pass.
Contexts == {EmptyMap, [lang |-> "en"], [session_id |-> "s0"]}
KwargsInputs ==
    {EmptyMap, [fields |-> <<"id", "name">>]}
        \cup {[context |-> c] : c \in Contexts}
        \cup {[fields |-> <<"id", "name">>, context |-> c] : c \in Contexts}

\* The inputs of one execute_kw: self.uid before the call, what
\* common.login answers if it is asked, and the arguments.
ExecuteKwInputs ==
    [fn : {"execute_kw"}, self_uid : {None, "u1"}, login : {"u2", "False"},
     uid : {None, "u2"}, password : {None, "pw2"}, kwargs : KwargsInputs,
     session_id : {None, "", "s1"}]

\* line 153: if session_id
HasSession(sid) == sid \notin {None, ""}

\* lines 152-154: kwargs.pop("context", {}) with the session_id put into it.
Context(kwargs, sid) ==
    LET c == IF "context" \in DOMAIN kwargs THEN kwargs["context"] ELSE EmptyMap IN
    IF HasSession(sid) THEN Put(c, "session_id", sid) ELSE c

\* A seventh element for every call.
HasKwargsAlways(kwargs, context) == TRUE

\* line 158: if kwargs or context
HasKwargs(kwargs, context) == DOMAIN kwargs # {} \/ DOMAIN context # {}

\* lines 159-161: the copy of kwargs with the context, if it is not empty.
FinalKwargs(kwargs, context) ==
    IF DOMAIN context # {} THEN Put(kwargs, "context", context) ELSE kwargs

\* lines 149-162: odoo_args for the arguments a when self.uid is u.
OdooArgs(a, u) ==
    LET context == Context(a.kwargs, a.session_id)
        kwargs == Without(a.kwargs, "context")
        call_password == IF a.password # None THEN a.password ELSE Password IN
    <<Database, CallUid(a.uid, u), call_password, TheModel, TheMethod, TheArgs>>
        \o IF HasKwargs(kwargs, context) THEN <<FinalKwargs(kwargs, context)>> ELSE <<>>

\* A call(service, method, args) as the handler makes it.
Request(service, method, args) == [service |-> service, method |-> method, args |-> args]

\* lines 70-74: the login call of ensure_authenticated.
LoginRequest == Request("common", "login", <<Database, Username, Password>>)

\* line 152: kwargs.pop("context", {}) is applied to the dictionary the
\* caller passed (kwargs.copy() comes later, in line 159): the caller's map
\* after that line.
KwargsAfterPop(kwargs) == Without(kwargs, "context")

\* lines 148-163 for one call whose requests are answered: the calls made in
\* order, AuthError in place of the execute_kw call after a falsy login, and
\* the caller's kwargs map as the call leaves it (line 152 is not reached
\* when line 148 raises).
HandlerExecuteKw(a) ==
    LET asked == IF NeedsLogin(a.self_uid) THEN <<LoginRequest>> ELSE <<>>
        u == IF NeedsLogin(a.self_uid) THEN LoginUid(a.self_uid, a.login) ELSE a.self_uid IN
    IF NeedsLogin(a.self_uid) /\ Falsy(a.login)
    THEN [fn |-> "raised", kind |-> "AuthError", calls |-> asked, kwargs |-> a.kwargs]
    ELSE [fn |-> "sent", kind |-> "none",
          calls |-> Append(asked, Request("object", "execute_kw", OdooArgs(a, u))),
          kwargs |-> KwargsAfterPop(a.kwargs)]

ApplyExecuteKw ==
    /\ arg.fn = "execute_kw"
    /\ ret = NoArg
    /\ ret' = HandlerExecuteKw(arg)
    /\ UNCHANGED <<arg, poolVars, handlerVars>>

\* ------------------------------------------------- exceptions.py, constructors
Kinds ==
    {"OdooMCPError", "AuthError", "NetworkError", "ProtocolError", "ConfigurationError",
     "OdooValidationError", "OdooRecordNotFoundError", "PoolTimeoutError",
     "OdooMethodNotFoundError"}

\* The original_exception passed: none, or an exception of this class.
Causes == {"none", "ValueError"}

\* The arguments of a constructor: message and original_exception, and
\* model and method in place of the message for OdooMethodNotFoundError.
ErrorInputs ==
    [kind : Kinds \ {"OdooMethodNotFoundError"},
     message : {<<"first">>, <<"second">>}, cause : Causes]
        \cup [kind : {"OdooMethodNotFoundError"}, model : {TheModel},
              method : {TheMethod, "frobnicate"}, cause : Causes]

\* line 99
MethodNotFoundMessage(model, method) ==
    <<"The method '", method, "' does not exist on the model '", model, "'">>

\* lines 12-16 through the __init__ of the class: the exception object.
Construct(e) ==
    IF e.kind = "OdooMethodNotFoundError"
    THEN Error(e.kind, MethodNotFoundMessage(e.model, e.method), e.cause)
    ELSE Error(e.kind, e.message, e.cause)

\* Two errors are constructed.
ApplyConstruct ==
    /\ arg.fn = "construct"
    /\ ret = NoArg
    /\ ret' = [fn |-> "construct", a |-> Construct(arg.a), b |-> Construct(arg.b)]
    /\ UNCHANGED <<arg, poolVars, handlerVars>>

\* ------------------------------------------------- to_jsonrpc_error, lines 18-23
\* str(self.original_exception): the message of the cause, which for a
\* cause of class c is taken to be the text c.
StrCause(c) == <<c>>

\* A conversion that reports a cause for every error.
HasCauseAlways(e) == TRUE

\* line 21: if self.original_exception
HasCause(e) == e.cause # "none"

\* lines 20-22: error_data; self.args is the tuple (message,).
ErrorData(e) ==
    IF HasCause(e)
    THEN [exception |-> e.kind, args |-> <<e.text>>,
          original_exception |-> StrCause(e.cause)]
    ELSE [exception |-> e.kind, args |-> <<e.text>>]

\* line 23
ToJsonrpcError(e) == [code |-> e.code, message |-> e.text, data |-> ErrorData(e)]

\* lines 18-23 assign no attribute of self: the error after the conversion.
AfterToJsonrpcError(e) == e

ApplyToJsonrpcError ==
    /\ arg.fn = "to_jsonrpc_error"
    /\ ret = NoArg
    /\ LET e == Construct(arg.error) IN
       ret' = [fn |-> "to_jsonrpc_error", before |-> e, after |-> AfterToJsonrpcError(e),
               result |-> ToJsonrpcError(e)]
    /\ UNCHANGED <<arg, poolVars, handlerVars>>

\* ------------------------------------------------- _prepare_payload, lines 45-57
\* Python values with their types: a list, a dict, a string, an int, None.
List(items) == [type |-> "list", items |-> items]
Dict(map) == [type |-> "dict", map |-> map]
Scalar(type, v) == [type |-> type, v |-> v]

\* What a caller may pass as args.
ParamsInputs ==
    {List(<<>>), List(<<Scalar("str", "db")>>),
     List(<<Scalar("str", "db"), Scalar("int", "2")>>),
     List(<<List(<<>>)>>), List(<<Dict([id |-> "1"])>>),
     Dict(EmptyMap), Dict([id |-> "1"]),
     Scalar("str", "db"), Scalar("int", "2"), Scalar("NoneType", None)}

PayloadInputs ==
    [fn : {"prepare_payload"}, service : {"common", "object"},
     method : {"login", "execute_kw", "version"}, params : ParamsInputs]

\* Every argument put into a new list, a list too.
ParamsWrapped(params) == List(<<params>>)

\* lines 48-51: a dict is wrapped, and so is anything that is not a list.
ParamsList(params) ==
    IF params.type = "dict" THEN List(<<params>>)
    ELSE IF params.type # "list" THEN List(<<params>>)
    ELSE params

\* lines 52-57
PreparePayload(service, method, params) ==
    [jsonrpc |-> "2.0",
     method |-> "call",
     params |-> [service |-> service, method |-> method, args |-> ParamsList(params),
                 kwargs |-> Dict(EmptyMap)],
     id |-> None]

\* line 95: call(service, method, args) builds its payload; the args of the
\* payload are normalised once more for comparison.
ApplyPreparePayload ==
    /\ arg.fn = "prepare_payload"
    /\ ret = NoArg
    /\ LET payload == PreparePayload(arg.service, arg.method, arg.params) IN
       ret' = [fn |-> "prepare_payload", payload |-> payload,
               again |-> ParamsList(payload.params.args)]
    /\ UNCHANGED <<arg, poolVars, handlerVars>>

\* ------------------------------------------------- the functions applied
FnInputs ==
    ExecuteKwInputs
        \cup PayloadInputs
        \cup [fn : {"to_jsonrpc_error"}, error : ErrorInputs]
        \cup [fn : {"construct"}, a : ErrorInputs, b : ErrorInputs]

NextFn ==
    \/ ApplyExecuteKw
    \/ ApplyConstruct
    \/ ApplyToJsonrpcError
    \/ ApplyPreparePayload

\* ------------------------------------------------- ORMTools._get_global_uid, orm_tools.py 30-45
\* The pool as ORMTools and the callers of its connections use it, not
\* started: no other task takes the lock, so "async with self._lock" never
\* suspends and a get_connection scope without an await in its body runs in
\* one step.
OrmReq == [model |-> "ORMTools", method |-> "_get_global_uid"]

\* jsonrpc_handler.py line 43: the handler the factory has just made.
NewUid == None

\* connUid after a locked section of get_connection that may have appended
\* a wrapper.
UidsAfter(uids, conns) == IF Len(conns) > Len(uids) THEN Append(uids, NewUid) ELSE uids

\* lines 37-45: the JSONRPC handler has no global_uid attribute; its uid
\* attribute is returned as it is.
GlobalUid(u) == u

\* A caller enters a get_connection scope to work with the connection.
OrmEnter(c) ==
    /\ pc[c] = "idle"
    /\ LockFree
    /\ AcquireSection(c)
    /\ connUid' = UidsAfter(connUid, connections')
    /\ UNCHANGED <<max_size, orphans, lockHolder, hcVars, adminVars, relVars, handlerVars,
                   fnVars, execVars>>

\* The holder's call on the connection authenticates it
\* (ensure_authenticated, jsonrpc_handler.py lines 67-80) with result r.
OrmLogin(c, r) ==
    /\ pc[c] = "held"
    /\ NeedsLogin(connUid[conn[c]])
    /\ connUid' = [connUid EXCEPT ![conn[c]] = LoginUid(@, r)]
    /\ raised' = "none"
    /\ UNCHANGED <<max_size, orphans, connections, lockHolder, pc, conn, hcVars, adminVars,
                   relVars, peak, handlerVars, fnVars, execVars>>

\* The holder leaves its scope.
OrmLeave(c) ==
    /\ pc[c] = "held"
    /\ LockFree
    /\ ScopeRelease(c)
    /\ UNCHANGED <<max_size, orphans, connUid, lockHolder, hcVars, adminVars, relVars,
                   handlerVars, fnVars, execVars>>

\* _get_global_uid: the locked section of get_connection (connection_pool.py
\* 92-121), the body (orm_tools.py 38-45) and the finally block
\* (connection_pool.py 126-131), with no suspension in between.
GetGlobalUid(c) ==
    /\ pc[c] = "idle"
    /\ LockFree
    /\ LET w == FirstIdle(connections) IN
       IF w # NoConn
       THEN /\ connections' = MarkIdle(MarkBusy(connections, w), w)
            /\ connUid' = connUid
            /\ delivered' = [caller |-> c, req |-> OrmReq,
                             out |-> Returned(GlobalUid(connUid[w]))]
            /\ raised' = "none"
            /\ peak' = Max(peak, NumHolders + 1)
       ELSE IF CanCreate(connections, max_size)
       THEN \/ LET n == Len(connections) + 1
                   made == MarkBusy(Append(connections, NewWrapper), n) IN
               /\ connections' = MarkIdle(made, n)
               /\ connUid' = UidsAfter(connUid, made)
               /\ delivered' = [caller |-> c, req |-> OrmReq,
                                out |-> Returned(GlobalUid(connUid'[n]))]
               /\ raised' = "none"
               /\ peak' = Max(peak, NumHolders + 1)
            \/ /\ connections' = AfterFactoryFailure(connections)
               /\ delivered' = [caller |-> c, req |-> OrmReq, out |-> PoolError("NetworkError")]
               /\ raised' = "NetworkError"
               /\ UNCHANGED <<connUid, peak>>
       ELSE /\ delivered' = [caller |-> c, req |-> OrmReq,
                             out |-> PoolError("PoolTimeoutError")]
            /\ raised' = "PoolTimeoutError"
            /\ UNCHANGED <<connections, connUid, peak>>
    /\ UNCHANGED <<max_size, orphans, lockHolder, pc, conn, hcVars, adminVars, relVars,
                   handlerVars, fnVars, req, work>>

NextOrm ==
    \/ \E c \in Callers : OrmEnter(c)
    \/ \E c \in Callers : \E r \in LoginResults : OrmLogin(c, r)
    \/ \E c \in Callers : OrmLeave(c)
    \/ \E c \in Callers : GetGlobalUid(c)

\* ------------------------------------------------- specification
InitBase(sizes) ==
    /\ HandlerInit
    /\ ExecInit
    /\ orphans = 0
    /\ connUid = <<>>
    /\ max_size \in sizes
    /\ connections = <<>>
    /\ lockHolder = "none"
    /\ pc = [c \in Callers |-> "idle"]
    /\ conn = [c \in Callers |-> NoConn]
    /\ raised = "none"
    /\ hcPc = "off"
    /\ hcOld = {}
    /\ hcSnapshot = <<>>
    /\ hcCur = NoConn
    /\ hcSleep = 0
    /\ cancelReq = FALSE
    /\ adminPc = "idle"
    /\ caIdx = 0
    /\ relPc = "idle"
    /\ relArg = NoConn
    /\ peak = 0

InitWith(sizes) == InitBase(sizes) /\ FnInit

Init == InitWith(1..MaxSize)

Next ==
    \/ \E c \in Callers : GetConnection(c)
    \/ \E c \in Callers : GetConnectionWait(c)
    \/ \E c \in Callers : GetConnectionResume(c)
    \/ \E c \in Callers : ExitScope(c)
    \/ \E c \in Callers : ExitScopeWait(c)
    \/ \E c \in Callers : ExitScopeResume(c)
    \/ \E c \in Callers : CancelWaiting(c)
    \/ ReleaseConnection
    \/ ReleaseConnectionWait
    \/ ReleaseConnectionResume
    \/ HcTick
    \/ HcTickWait
    \/ HcTickResume
    \/ HcCloseDone
    \/ HcCloseFails
    \/ HcCancelled
    \/ Start
    \/ CloseAll
    \/ CloseAllResume
    \/ CleanupDone
    \/ Stop
    \/ StopResume
    \/ Tick

Spec == Init /\ [][Next]_vars

SpecExec == Init /\ [][NextExec]_vars

SpecScope == Init /\ [][NextScope]_vars

SpecOrm == Init /\ [][NextOrm]_vars

\* The functions of the handler and of exceptions.py applied to their inputs.
SpecFn == InitBase({1}) /\ arg \in FnInputs /\ ret = NoArg /\ [][NextFn]_vars

\* One handler called by the tasks, outside any pool.
SpecHandler == InitWith({1}) /\ [][HandlerNext]_vars

\* ------------------------------------------------- the wide pool
\* A pool of MaxSize + 1 connections used through get_connection alone,
\* with its health-check task running: no release_connection, no close_all.
NextWide ==
    \/ \E c \in Callers : GetConnection(c)
    \/ \E c \in Callers : GetConnectionWait(c)
    \/ \E c \in Callers : GetConnectionResume(c)
    \/ \E c \in Callers : ExitScope(c)
    \/ \E c \in Callers : ExitScopeWait(c)
    \/ \E c \in Callers : ExitScopeResume(c)
    \/ \E c \in Callers : CancelWaiting(c)
    \/ HcTick
    \/ HcTickWait
    \/ HcTickResume
    \/ HcCloseDone
    \/ HcCloseFails
    \/ Start
    \/ Tick

SpecWide == InitWith({MaxSize + 1}) /\ [][NextWide]_vars

\* ------------------------------------------------- properties
\* The step is the locked section of caller c's get_connection.
Attempt(c) == GetConnection(c) \/ GetConnectionResume(c)

\* The pool holds max_size wrappers and all are busy.
Exhausted ==
    /\ Len(connections) = max_size
    /\ \A w \in Positions : connections[w].in_use

\* The callers inside the body of their scope with wrapper w.
HeldBy(w) == {c \in Callers : pc[c] = "held" /\ conn[c] = w}

\* C1: in every reachable state the list holds at most max_size wrappers.
C1_Capacity == Len(connections) <= max_size

\* The pool is full and an acquirer has just been refused.
C1_Witness == Len(connections) = max_size /\ raised = "PoolTimeoutError"

\* C2: no two callers are inside a get_connection scope with the same
\* connection at the same time.
C2_MutualExclusion == \A w \in Positions : Cardinality(HeldBy(w)) <= 1

C4_AllSucceed ==
    [][\A c \in Callers :
          (Attempt(c) /\ NumHolders < max_size /\ raised' # "NetworkError") =>
              /\ pc'[c] = "held"
              /\ \A d \in Callers \ {c} : InScope(d) => conn'[d] # conn'[c]]_vars

\* C5: no wrapper of the pool is busy without a caller inside a scope on it:
\* every exit from a scope leaves its wrapper with in_use false.
C5_ReleasedOnExit == \A w \in Positions : connections[w].in_use => Holders(w) # {}

\* C6: the pool never holds more wrappers than the largest number of
\* callers that were inside a scope at the same time.
C6_NoGrowth == Len(connections) <= peak

\* C7: the health check closes and removes idle wrappers only: the wrapper
\* whose close() a tick awaits is not busy, and neither is one it removes.
C7_NeverEvictBusy ==
    [][/\ hcPc' = "closing" => ~connections'[hcCur'].in_use
       /\ (hcPc = "closing" /\ Len(connections') < Len(connections)) =>
              /\ ~connections[hcCur].in_use
              /\ connections' \in {Remove(connections, hcCur),
                                   MarkClosed(Remove(connections, hcCur), hcCur')}]_vars

\* A tick is closing a stale wrapper while another wrapper, busy, is as old.
C7_Witness ==
    /\ hcPc = "closing"
    /\ \E w \in Positions : connections[w].in_use /\ TooOld(connections[w].age)

\* C8: a tick closes a wrapper only if its age exceeds the interval, and
\* when the tick is through with such a wrapper it is no longer in the pool.
C8_Threshold ==
    [][/\ (hcPc \in {"sleeping", "lockwait"} /\ hcPc' = "closing") =>
              TooOld(connections[hcCur'].age)
       /\ (HcCloseDone \/ HcCloseFails) => Len(connections') < Len(connections)]_vars

\* C9: no step invokes close()/cleanup() on a busy wrapper or removes a busy
\* wrapper from the list.
C9_NoEvictInUse ==
    [][/\ hcPc' = "closing" => ~connections'[hcCur'].in_use
       /\ (adminPc' = "cleanup" /\ caIdx' # caIdx) => ~connections[caIdx'].in_use
       /\ Len(connections') < Len(connections) =>
              \A w \in Positions : connections[w].in_use =>
                  \E v \in 1..Len(connections') : connections'[v].in_use]_vars

\* C10: the list grows only by a wrapper get_connection has just
\* constructed; get_connection yields wrappers of the list only; and the
\* exit of a holder whose wrapper has left the list leaves the list alone.
C10_EvictedIsTerminal ==
    [][/\ Len(connections') > Len(connections) =>
              /\ Len(connections') = Len(connections) + 1
              /\ connections'[Len(connections')] = MarkBusy(<<NewWrapper>>, 1)[1]
              /\ \E c \in Callers : Attempt(c) /\ conn'[c] = Len(connections')
       /\ \A c \in Callers :
              (pc[c] # "held" /\ pc'[c] = "held") => conn'[c] \in 1..Len(connections')
       /\ \A c \in Callers :
              (InScope(c) /\ conn[c] = Gone /\ pc'[c] = "idle") =>
                  connections' = connections]_vars

\* A caller is still inside its scope on a wrapper that has left the list,
\* and the pool has handed a newer wrapper to the other caller.
C10_Witness ==
    \E c \in Callers : \E d \in Callers \ {c} :
        /\ pc[c] = "held" /\ conn[c] = Gone
        /\ pc[d] = "held" /\ conn[d] \in Positions

\* C11: whenever a connection's close() or cleanup() is being awaited, the
\* pool lock is free.
C11_LockFreeDuringIO == (hcPc = "closing" \/ adminPc = "cleanup") => lockHolder = "none"

\* ------------------------------------------------- shutdown through stop()
\* The pool with every operation but a close_all() called on its own: each
\* close_all that runs is the one of a stop() or close().
NextStop ==
    \/ \E c \in Callers : GetConnection(c)
    \/ \E c \in Callers : GetConnectionWait(c)
    \/ \E c \in Callers : GetConnectionResume(c)
    \/ \E c \in Callers : ExitScope(c)
    \/ \E c \in Callers : ExitScopeWait(c)
    \/ \E c \in Callers : ExitScopeResume(c)
    \/ \E c \in Callers : CancelWaiting(c)
    \/ ReleaseConnection
    \/ ReleaseConnectionWait
    \/ ReleaseConnectionResume
    \/ HcTick
    \/ HcTickWait
    \/ HcTickResume
    \/ HcCloseDone
    \/ HcCloseFails
    \/ HcCancelled
    \/ Start
    \/ CloseAllResume
    \/ CleanupDone
    \/ Stop
    \/ StopResume
    \/ Tick

SpecStop == Init /\ [][NextStop]_vars

\* C12: stop()/close() goes on to close_all only once the health-check task
\* has terminated; while that close_all waits for the lock or runs, the task
\* is not alive, and it stays so until start() is called again; when stop()
\* returns the list is empty and cleanup() was invoked on every wrapper that
\* was in it.
C12_ShutdownOrder ==
    [][/\ (adminPc = "stopping" /\ adminPc' # "stopping") => hcPc = "off"
       /\ adminPc' \in {"ca_wait", "cleanup"} => hcPc' = "off"
       /\ (adminPc # "idle" /\ adminPc' = "idle") =>
              /\ connections' = <<>>
              /\ \A w \in Positions : connections[w].closed
       /\ (hcPc = "off" /\ hcPc' # "off") => Start]_vars

\* The close_all of a stop() is at its first wrapper, and the second one was
\* being closed by the health-check tick when the cancellation ended it.
C12_Witness ==
    /\ adminPc = "cleanup"
    /\ caIdx = 1
    /\ Len(connections) = 2
    /\ connections[2].closed

\* The event loop runs every task that is ready: a requested cancellation is
\* delivered, a task whose awaited task has ended goes on, a task queued for
\* the free lock gets it; and an awaited cleanup() ends (the transport has
\* its timeout).
StopFairness ==
    /\ WF_vars(HcCancelled)
    /\ WF_vars(StopResume)
    /\ WF_vars(CloseAllResume)
    /\ WF_vars(CleanupDone)

SpecStopFair == Init /\ [][NextStop]_vars /\ StopFairness

\* C13: wherever the cancellation reaches the health-check task (asleep,
\* queued for the lock, or closing a connection under the lock) the task
\* ends and the lock is free; stop() leaves its wait without an error and
\* eventually returns.
C13_CooperativeCancel ==
    /\ [][/\ HcCancelled => (hcPc' = "off" /\ lockHolder' = "none")
          /\ (adminPc = "stopping" /\ adminPc' # "stopping") => raised' = "none"]_vars
    /\ (adminPc = "stopping") ~> (adminPc = "idle")

\* The task was cancelled and has ended, the lock is free with callers
\* still queued for it, and stop() has not gone on yet.
C13_Witness ==
    /\ adminPc = "stopping"
    /\ hcPc = "off"
    /\ lockHolder = "none"
    /\ \E c \in Callers : pc[c] \in {"acquiring", "releasing"}
    /\ \E w \in Positions : connections[w].closed

SpecFair == Init /\ [][Next]_vars /\ StopFairness

\* C14: close_all goes from each wrapper to the next whether its cleanup()
\* returned or failed; it ends with no error raised, the lock free, the
\* list empty and cleanup() invoked on every wrapper that was in it; and
\* once it runs it always ends.
C14_CloseAllCompletes ==
    /\ [][/\ (CleanupDone /\ caIdx < Len(connections)) =>
                 /\ adminPc' = "cleanup"
                 /\ caIdx' = caIdx + 1
                 /\ connections' = MarkClosed(connections, caIdx')
          /\ (CleanupDone /\ caIdx = Len(connections)) =>
                 /\ adminPc' = "idle"
                 /\ raised' = "none"
                 /\ lockHolder' = "none"
                 /\ connections' = <<>>
                 /\ \A w \in Positions : connections[w].closed
          /\ (adminPc = "cleanup" /\ adminPc' # "cleanup") => CleanupDone]_vars
    /\ (adminPc = "cleanup") ~> (adminPc = "idle" /\ connections = <<>>)

\* close_all is awaiting the cleanup() of the last of two wrappers.
C14_Witness ==
    /\ adminPc = "cleanup"
    /\ Len(connections) = 2
    /\ caIdx = 2
    /\ \A w \in Positions : connections[w].closed

\* ------------------------------------------------- properties of the handler
LoginResponses == Responses(LoginResults \cup {None})
RpcResponses == Responses({"rows", None})

\* Text t has the pieces of sub in it, one after the other.
Contains(t, sub) ==
    \E i \in 0..(Len(t) - Len(sub)) : SubSeq(t, i + 1, i + Len(sub)) = sub

\* C15: a login call is sent only while no identity is cached; with an
\* identity cached, ensure_authenticated returns it at once and execute_kw
\* goes straight to its call, with the given uid or else the cached one.
C15_LoginOnce ==
    [][\A t \in Tasks :
          /\ logins' # logins => uid = None
          /\ (uid # None /\ EnsureAuthenticated(t)) =>
                 (hpc'[t] = "idle" /\ hout'[t] = Returned(uid))
          /\ \A given \in Ids \cup {None} :
                 (uid # None /\ ExecuteKw(t, given)) =>
                     /\ hpc'[t] = "rpc"
                     /\ sentUid'[t] = (IF given = None THEN uid ELSE given)]_vars

\* After a single login one task got the cached identity back from
\* ensure_authenticated and another is in an execute_kw call that carries it.
C15_Witness ==
    /\ uid # None
    /\ logins = 1
    /\ \E t \in Tasks : \E o \in Tasks \ {t} :
         /\ hop[t] = "ensure_authenticated" /\ hout[t] = Returned(uid)
         /\ hop[o] = "execute_kw" /\ hpc[o] = "rpc" /\ sentUid[o] = uid

\* C16: a login that returns a falsy or no result raises AuthError (code
\* -32001) and leaves the cached identity as it was; a call made while no
\* identity is cached sends the login again; a login that returns an
\* identity caches it and raises nothing.
C16_FailedLoginRetry ==
    [][\A t \in Tasks :
          /\ \A resp \in LoginResponses :
                 (LoginReturns(t, resp) /\ resp.type = "result") =>
                     IF Falsy(resp.value)
                     THEN /\ hout'[t].kind = "AuthError"
                          /\ hout'[t].code = 0 - 32001
                          /\ hpc'[t] = "idle"
                          /\ uid' = uid
                     ELSE /\ uid' = resp.value
                          /\ hout'[t].kind \in {"return", "none"}
          /\ (uid = None /\ (EnsureAuthenticated(t)
                                \/ \E given \in Ids \cup {None} : ExecuteKw(t, given))) =>
                 (hpc'[t] = "login" /\ logins' = logins + 1)]_vars

\* One task's login failed with AuthError; a later login succeeded and
\* ensure_authenticated returned the identity to the other task.
C16_Witness ==
    /\ uid # None
    /\ logins = 2
    /\ \E t \in Tasks : \E o \in Tasks \ {t} :
         /\ hout[t].kind = "AuthError"
         /\ hop[o] = "ensure_authenticated" /\ hout[o] = Returned(uid)

\* C17: the cached identity, once set, never changes.
C17_IdentityImmutable == [][uid # None => uid' = uid]_vars

\* C18: a call whose transport fails raises a NetworkError (code -32002)
\* that wraps the transport's exception.
C18_TransportFailure ==
    [][\A t \in Tasks : \A resp \in LoginResponses \cup RpcResponses :
          (resp.type = "fail" /\ (LoginReturns(t, resp) \/ RpcReturns(t, resp))) =>
              /\ hout'[t].kind = "NetworkError"
              /\ hout'[t].code = 0 - 32002
              /\ hout'[t].cause = resp.exc]_vars

\* C19: a call whose response carries an error member raises a
\* ProtocolError (code -32003) whose message has the remote code, message
\* and debug text in it.
C19_RemoteError ==
    [][\A t \in Tasks : \A resp \in LoginResponses \cup RpcResponses :
          (resp.type = "error" /\ (LoginReturns(t, resp) \/ RpcReturns(t, resp))) =>
              /\ hout'[t].kind = "ProtocolError"
              /\ hout'[t].code = 0 - 32003
              /\ Contains(hout'[t].text, <<resp.error.code>>)
              /\ Contains(hout'[t].text, resp.error.message)
              /\ Contains(hout'[t].text, resp.error.debug)]_vars

\* The step ends an execute_kw call of caller c.
ExecEnds(c) == pc[c] # "idle" /\ pc'[c] = "idle"

\* C20: an execute_kw whose work returned hands that result to its caller;
\* one that failed, in get_connection (pool exhausted, factory failure) or
\* in the connection's execute_kw (handler error, failed login), raises a
\* NetworkError (code -32002) whose message names the method and the model
\* of the call; the wrapper the call had acquired is not busy when the call
\* ends, and a call that acquired none leaves the pool as it was.
C20_ExecuteKw ==
    [][\A c \in Callers :
          /\ \A r \in Requests :
                 ((PoolExecuteKw(c, r) \/ (PoolExecuteKwResume(c) /\ req[c] = r))
                      /\ pc'[c] = "idle") =>
                     /\ delivered'.caller = c
                     /\ delivered'.out.kind = "NetworkError"
                     /\ delivered'.out.code = 0 - 32002
                     /\ Contains(delivered'.out.text, <<r.method, " on ", r.model>>)
                     /\ connections' = connections
          /\ \A out \in WorkOutcomes :
                 (WorkEnds(c, out) \/ (WorkEndsResume(c) /\ work[c] = out)) =>
                     /\ delivered'.caller = c
                     /\ IF out.kind = "return"
                        THEN delivered'.out = out
                        ELSE /\ delivered'.out.kind = "NetworkError"
                             /\ delivered'.out.code = 0 - 32002
                             /\ Contains(delivered'.out.text,
                                         <<req[c].method, " on ", req[c].model>>)
                     /\ ~connections'[conn[c]].in_use
          /\ ExecEnds(c) => (req'[c] = NoReq /\ conn'[c] = NoConn)]_vars

\* An execute_kw whose login failed has ended in a NetworkError, a wrapper
\* just released is idle in the pool, and the other caller is inside its
\* own call.
C20_Witness ==
    /\ delivered.out.kind = "NetworkError"
    /\ Contains(delivered.out.text, <<"Authentication failed">>)
    /\ pc[delivered.caller] = "idle"
    /\ \E w \in Positions : ~connections[w].in_use /\ connections[w].age = 0
    /\ \E c \in Callers : pc[c] = "held"

\* C21: what the body of a scope raised (or returned) is what the scope's
\* caller gets, the same exception and not a NetworkError or
\* PoolTimeoutError in its place, and the wrapper of the scope is idle with
\* its last_used refreshed when the scope has ended.
C21_BodyErrorUnchanged ==
    [][\A c \in Callers : \A out \in BodyOutcomes :
          (BodyEnds(c, out) \/ (BodyEndsResume(c) /\ work[c] = out)) =>
              /\ delivered'.caller = c
              /\ delivered'.out = out
              /\ pc'[c] = "idle"
              /\ connections'[conn[c]] = [connections[conn[c]] EXCEPT !.in_use = FALSE,
                                                                      !.age = 0]]_vars

\* A scope whose body raised ValueError has ended with that ValueError and
\* its wrapper is idle, just released, in the pool.
C21_Witness ==
    /\ delivered.out.kind = "ValueError"
    /\ pc[delivered.caller] = "idle"
    /\ \E w \in Positions : ~connections[w].in_use /\ connections[w].age = 0

\* C22: the execute_kw of the handler sends, after authentication (a login
\* call first when no identity is cached, none otherwise, and nothing after a
\* failed login), one call of service "object", method "execute_kw" whose
\* arguments are database, the given uid or else the cached identity, the
\* given password or else the configured one, model, method, args, and as a
\* seventh element the kwargs map with the context (the caller's context
\* with the session_id put into it) exactly when that map is not empty.
C22_OdooArgs ==
    (arg.fn = "execute_kw" /\ ret # NoArg) =>
        LET given == IF "context" \in DOMAIN arg.kwargs THEN arg.kwargs["context"]
                     ELSE EmptyMap
            withSession == arg.session_id \in {"s1"}
            keys == (DOMAIN arg.kwargs \ {"context"})
                       \cup IF DOMAIN given # {} \/ withSession THEN {"context"} ELSE {}
            identity == IF arg.self_uid = None THEN arg.login ELSE arg.self_uid
            last == ret.calls[Len(ret.calls)]
        IN  /\ Len(ret.calls) = IF arg.self_uid = None /\ ret.fn = "sent" THEN 2 ELSE 1
            /\ arg.self_uid = None => ret.calls[1] = LoginRequest
            /\ ret.fn = "raised" <=> (arg.self_uid = None /\ arg.login = "False")
            /\ ret.fn = "sent" =>
                /\ last.service = "object" /\ last.method = "execute_kw"
                /\ SubSeq(last.args, 1, 6) =
                       <<Database,
                         IF arg.uid = None THEN identity ELSE arg.uid,
                         IF arg.password = None THEN Password ELSE arg.password,
                         TheModel, TheMethod, TheArgs>>
                /\ Len(last.args) = IF keys = {} THEN 6 ELSE 7
                /\ keys # {} =>
                    /\ DOMAIN last.args[7] = keys
                    /\ "fields" \in keys => last.args[7].fields = arg.kwargs.fields
                    /\ "context" \in keys =>
                        /\ DOMAIN last.args[7].context =
                               DOMAIN given \cup IF withSession THEN {"session_id"} ELSE {}
                        /\ withSession => last.args[7].context.session_id = "s1"
                        /\ \A k \in DOMAIN given :
                               (k # "session_id" \/ ~withSession) =>
                                   last.args[7].context[k] = given[k]

\* A call with fields and a context, a session_id and no cached identity
\* has sent the login and then seven arguments.
C22_Witness ==
    /\ arg.fn = "execute_kw" /\ ret # NoArg /\ ret.fn = "sent"
    /\ arg.self_uid = None /\ arg.session_id = "s1"
    /\ DOMAIN arg.kwargs = {"fields", "context"}
    /\ Len(ret.calls) = 2
    /\ Len(ret.calls[2].args) = 7

\* C23: with release_connection called at any time, a wrapper is busy as
\* long as some caller is inside a get_connection scope on its connection,
\* so that no acquirer is handed it and no health check evicts it.
C23_BusyWhileHeld == \A w \in Positions : Holders(w) # {} => connections[w].in_use

\* C24: a call of cleanup() or of close() calls aclose() of the transport
\* session once and returns, whether aclose() succeeded or raised: the
\* failure is logged and never raised to the caller.
C24_BestEffortTeardown ==
    [][\A t \in Tasks :
          (Cleanup(t) \/ Close(t)) =>
              /\ acloses' = acloses + 1
              /\ hout'[t].kind = "return"]_vars

\* C25: two errors carry the same code exactly when they are of the same
\* kind, whatever their messages and causes, and the code is the fixed one
\* of the -32000 range of that kind.
C25_CodesOneToOne ==
    (arg.fn = "construct" /\ ret # NoArg) =>
        /\ ret.a.kind = arg.a.kind /\ ret.b.kind = arg.b.kind
        /\ ret.a.code = ret.b.code <=> arg.a.kind = arg.b.kind
        /\ ret.a.code \in (0 - 32016)..(0 - 32000)
        /\ arg.a.kind = "OdooMCPError" => ret.a.code = 0 - 32000

\* Errors of two kinds and errors of one kind with different messages and
\* causes have been constructed.
C25_Witness ==
    /\ arg.fn = "construct" /\ ret # NoArg
    /\ arg.a.kind = "AuthError" /\ arg.b.kind = "AuthError"
    /\ arg.a.message # arg.b.message /\ arg.a.cause # arg.b.cause
    /\ ret.a.code = ret.b.code

\* C26: to_jsonrpc_error of an error of any kind returns the code of the
\* error, its message, and data with the name of the kind and the args (the
\* message); data has original_exception, the text of the cause, exactly
\* when the error was constructed with a cause; and the error is after the
\* conversion what it was before.
C26_ToJsonrpcError ==
    (arg.fn = "to_jsonrpc_error" /\ ret # NoArg) =>
        LET message == IF arg.error.kind = "OdooMethodNotFoundError"
                       THEN <<"The method '", arg.error.method,
                              "' does not exist on the model '", arg.error.model, "'">>
                       ELSE arg.error.message
            r == ret.result
        IN  /\ DOMAIN r = {"code", "message", "data"}
            /\ r.code = ret.before.code
            /\ r.message = message
            /\ r.data.exception = arg.error.kind
            /\ r.data.args = <<message>>
            /\ "original_exception" \in DOMAIN r.data <=> arg.error.cause # "none"
            /\ arg.error.cause # "none" => r.data.original_exception = <<arg.error.cause>>
            /\ DOMAIN r.data \subseteq {"exception", "args", "original_exception"}
            /\ ret.after = ret.before

\* A NetworkError that wraps a cause has been converted, with the cause in
\* its data.
C26_Witness ==
    /\ arg.fn = "to_jsonrpc_error" /\ ret # NoArg
    /\ arg.error.kind = "NetworkError" /\ arg.error.cause = "ValueError"
    /\ ret.result.code = 0 - 32002
    /\ "original_exception" \in DOMAIN ret.result.data

\* C27: the payload of a call is a JSON-RPC 2.0 envelope with method "call",
\* id null, an empty params.kwargs, the service and method given, and
\* params.args a list: the list given, unchanged, or a one-element list of
\* the mapping or scalar given; normalising the list again changes nothing.
C27_Envelope ==
    (arg.fn = "prepare_payload" /\ ret # NoArg) =>
        LET p == ret.payload IN
        /\ DOMAIN p = {"jsonrpc", "method", "params", "id"}
        /\ p.jsonrpc = "2.0" /\ p.method = "call" /\ p.id = None
        /\ DOMAIN p.params = {"service", "method", "args", "kwargs"}
        /\ p.params.service = arg.service /\ p.params.method = arg.method
        /\ p.params.kwargs.type = "dict" /\ DOMAIN p.params.kwargs.map = {}
        /\ p.params.args.type = "list"
        /\ IF arg.params.type = "list"
           THEN p.params.args = arg.params
           ELSE Len(p.params.args.items) = 1 /\ p.params.args.items[1] = arg.params
        /\ ret.again = p.params.args

\* A payload has been built from a mapping, wrapped into a list of one.
C27_Witness ==
    /\ arg.fn = "prepare_payload" /\ ret # NoArg
    /\ arg.params.type = "dict"
    /\ ret.payload.params.args.items = <<arg.params>>

\* C28: a get_connection whose locked section finds an idle wrapper yields
\* the first idle wrapper in list order, marks it busy and creates nothing;
\* the factory is called (the list grows, or NetworkError is raised) only
\* when every wrapper is busy and the list is shorter than max_size.
C28_PrefersReuse ==
    [][\A c \in Callers :
          Attempt(c) =>
              LET idle == {w \in Positions : ~connections[w].in_use} IN
              /\ idle # {} =>
                    /\ conn'[c] \in idle
                    /\ \A w \in idle : conn'[c] <= w
                    /\ connections' = [connections EXCEPT ![conn'[c]].in_use = TRUE]
                    /\ raised' = "none"
              /\ (Len(connections') # Len(connections) \/ raised' = "NetworkError") =>
                    /\ idle = {}
                    /\ Len(connections) < max_size]_vars

\* The pool has two wrappers; one caller is inside a scope, on the first,
\* and the second wrapper is idle.
C28_Witness ==
    /\ Len(connections) = 2
    /\ \E c \in Callers : pc[c] = "held" /\ conn[c] = 1
    /\ connections[1].in_use /\ ~connections[2].in_use
    /\ NumHolders = 1
    /\ raised = "none"

\* C29: a get_connection whose factory call fails raises NetworkError, adds
\* no wrapper and changes no busy flag, and leaves the lock free, so that an
\* acquisition made afterwards, or one that was queued, runs its locked
\* section.
C29_FactoryFailure ==
    [][/\ \A c \in Callers :
            (Attempt(c) /\ raised' = "NetworkError") =>
                /\ connections' = connections
                /\ pc'[c] = "idle" /\ conn'[c] = NoConn
                /\ lockHolder' = "none"
       /\ \A c \in Callers :
            (raised = "NetworkError" /\ pc[c] = "idle") =>
                /\ LockFree => ENABLED GetConnection(c)
                /\ \A d \in Callers :
                      (lockHolder = "none" /\ pc[d] = "acquiring") =>
                          ENABLED GetConnectionResume(d)]_vars

\* A factory call has failed with one wrapper busy in a pool of two: the
\* list still has the one wrapper.
C29_Witness ==
    /\ raised = "NetworkError"
    /\ Len(connections) = 1 /\ max_size = 2
    /\ connections[1].in_use
    /\ lockHolder = "none"

\* What a release_connection of connection w may change.
OnlyOwnerReleased(w) ==
    /\ Len(connections') = Len(connections)
    /\ \A v \in Positions :
          connections'[v] = IF v = w
                            THEN [connections[v] EXCEPT !.in_use = FALSE, !.age = 0]
                            ELSE connections[v]
    /\ raised' = "none"
    /\ pc' = pc /\ conn' = conn

\* C30: release_connection(c) marks the wrapper that owns c idle and
\* refreshes its last_used, and changes no other wrapper and not the
\* membership of the list; for a connection no wrapper owns it changes
\* nothing; it raises nothing in either case.
C30_ReleaseOnlyOwner ==
    [][/\ \A w \in Releasable :
            (relPc = "idle" /\ relPc' = "idle" /\ LockFree /\ ReleaseSection(w)) =>
                OnlyOwnerReleased(w)
       /\ ReleaseConnectionResume => OnlyOwnerReleased(relArg)]_vars

\* Two callers are inside scopes on two wrappers, and the second wrapper
\* has been released explicitly: it is idle, the first is busy.
C30_Witness ==
    /\ Len(connections) = 2
    /\ pc["a"] = "held" /\ pc["b"] = "held" /\ conn["a"] # conn["b"]
    /\ connections[1].in_use /\ ~connections[2].in_use
    /\ connections[2].age = 0 /\ connections[1].age > 0

\* C31: when the close() of a stale wrapper fails during a tick, nothing is
\* raised to any caller and no caller's scope changes; the tick goes on to
\* the next stale idle wrapper of its snapshot and closes it, or, with none
\* left, frees the lock and the loop sleeps for the next tick.
C31_EvictionFailureSwallowed ==
    [][HcCloseFails =>
          LET stale == {i \in 1..Len(hcSnapshot) :
                           /\ ~connections[hcSnapshot[i]].in_use
                           /\ hcSnapshot[i] \in hcOld} IN
          /\ raised' = "none"
          /\ pc' = pc /\ conn' = conn
          /\ Len(connections') = Len(connections)
          /\ IF stale # {}
             THEN /\ hcPc' = "closing"
                  /\ hcCur' = hcSnapshot[CHOOSE i \in stale : \A j \in stale : i <= j]
                  /\ lockHolder' = HC
             ELSE /\ hcPc' = "sleeping"
                  /\ hcSleep' = Interval
                  /\ lockHolder' = "none"]_vars

\* A close() of the first wrapper has failed (the wrapper is still in the
\* list, idle) and a tick is closing the second wrapper.
C31_Witness ==
    /\ hcPc = "closing"
    /\ hcCur = 2
    /\ Len(connections) = 2
    /\ connections[1].closed /\ ~connections[1].in_use

\* ------------------------------------------------- the loop with its error branch
\* The pool used through get_connection, started and stopped, with ticks
\* that may fail unexpectedly.
NextLoop ==
    \/ \E c \in Callers : GetConnection(c)
    \/ \E c \in Callers : GetConnectionWait(c)
    \/ \E c \in Callers : GetConnectionResume(c)
    \/ \E c \in Callers : ExitScope(c)
    \/ \E c \in Callers : ExitScopeWait(c)
    \/ \E c \in Callers : ExitScopeResume(c)
    \/ HcTick
    \/ HcTickWait
    \/ HcTickResume
    \/ HcTickFails
    \/ HcBackoffEnds
    \/ HcCloseDone
    \/ HcCloseFails
    \/ HcCancelled
    \/ Start
    \/ CloseAllResume
    \/ CleanupDone
    \/ Stop
    \/ StopResume
    \/ Tick

\* Time passes; a sleep that has ended is followed by the task's next step;
\* the lock wakes its waiters in turn, so the queued task gets it; an
\* awaited close() or cleanup() ends (the transport has its timeout); the
\* steps of stop() are taken.
LoopFairness ==
    /\ WF_vars(Tick)
    /\ WF_vars(HcTick \/ HcTickWait \/ HcTickFails)
    /\ SF_vars(HcTickResume \/ HcTickFails)
    /\ WF_vars(HcBackoffEnds)
    /\ WF_vars(HcCloseDone \/ HcCloseFails)
    /\ StopFairness

SpecLoop == Init /\ [][NextLoop]_vars /\ LoopFairness

\* The locked part of a tick has run: it is closing a wrapper, or it found
\* nothing more to close and the next sleep has begun, or it failed and the
\* recovery sleep has begun.
TickRan ==
    \/ hcPc = "closing"
    \/ hcPc = "sleeping" /\ hcSleep = Interval
    \/ hcPc = "backoff" /\ hcSleep = Recovery

\* stop() has requested the cancellation, or the task is not running.
LoopStopped == cancelReq \/ hcPc = "off"

\* C32: the health-check task ends only by the cancellation of stop(); a
\* tick that fails unexpectedly is followed by the recovery sleep and then
\* by the next sleep of the loop; and as long as the pool is started and
\* not stopped the loop comes to its next tick and the tick runs.
C32_LoopKeepsTicking ==
    /\ [][/\ (hcPc # "off" /\ hcPc' = "off") => (HcCancelled /\ cancelReq)
          /\ HcTickFails => (hcPc' = "backoff" /\ hcSleep' = Recovery /\ lockHolder' = "none")
          /\ (hcPc = "backoff" /\ hcPc' \notin {"backoff", "off"}) =>
                 (hcPc' = "sleeping" /\ hcSleep' = Interval /\ hcSleep = 0)]_vars
    /\ (hcPc = "backoff") ~> (hcPc = "sleeping" \/ LoopStopped)
    /\ (hcPc # "off") ~> ((hcPc = "sleeping" /\ hcSleep = 0) \/ LoopStopped)
    /\ (hcPc \in {"sleeping", "lockwait"} /\ hcSleep = 0) ~> (TickRan \/ LoopStopped)

\* A tick has failed and its recovery sleep has run out, with wrappers in
\* the pool and no cancellation requested.
C32_Witness ==
    /\ hcPc = "backoff"
    /\ hcSleep = 0
    /\ ~cancelReq
    /\ connections # <<>>

\* C33: get_connection yields no connection on which close() or cleanup()
\* was invoked before: a wrapper whose connection a health-check tick or
\* close_all has tried to close is not in the list any more when an
\* acquisition scans it.
C33_NeverYieldClosed ==
    [][\A c \in Callers :
          (Attempt(c) /\ pc'[c] = "held") => ~connections'[conn'[c]].closed]_vars

\* ------------------------------------------------- start called more than once
NextStart ==
    \/ NextLoop
    \/ StartAgain

SpecStart == Init /\ [][NextStart]_vars

\* C34: at most one health-check task of the pool is alive at any time, and
\* when stop() or close() returns none is, however often start() was called
\* before.
C34_NoTaskAfterStop ==
    [][/\ AliveTasks' <= 1
       /\ (adminPc # "idle" /\ adminPc' = "idle") => AliveTasks' = 0]_vars

\* C35: the kwargs map the caller passed to the execute_kw of the handler
\* has, after the call, the keys and values it had before, its "context"
\* entry included.
C35_KwargsUnchanged ==
    (arg.fn = "execute_kw" /\ ret # NoArg) =>
        /\ DOMAIN ret.kwargs = DOMAIN arg.kwargs
        /\ \A k \in DOMAIN arg.kwargs : ret.kwargs[k] = arg.kwargs[k]

\* ------------------------------------------------- the lock
\* The lock wakes its waiters first come, first served, so a queued
\* get_connection gets it; an awaited close() or cleanup() ends or is
\* cancelled; the steps of stop() are taken.
LockFairness ==
    /\ \A c \in Callers : SF_vars(GetConnectionResume(c))
    /\ WF_vars(HcCloseDone \/ HcCloseFails \/ HcCancelled)
    /\ StopFairness

\* Every operation that takes the lock, with cancelled waiters and ticks
\* that fail, on a pool of one connection.
NextLock ==
    \/ NextLoop
    \/ \E c \in Callers : CancelWaiting(c)
    \/ ReleaseConnection
    \/ ReleaseConnectionWait
    \/ ReleaseConnectionResume

SpecLockFair == InitWith({1}) /\ [][NextLock]_vars /\ LockFairness

\* C36: the lock is held only by a health-check tick that awaits a close()
\* or by a close_all that awaits a cleanup(); every locked section that
\* ends (an acquisition that succeeds, fails on the factory or finds the
\* pool exhausted, a release, the last cleanup of close_all whether it
\* failed or not, an eviction that failed, a cancelled tick) leaves the
\* lock free; and a get_connection queued for the lock eventually yields a
\* connection or raises.
C36_LockReleased ==
    /\ [](\/ lockHolder = "none"
          \/ lockHolder = HC /\ hcPc = "closing"
          \/ lockHolder = ADMIN /\ adminPc = "cleanup")
    /\ [][/\ \A c \in Callers : (Attempt(c) \/ ExitScope(c) \/ ExitScopeResume(c)) =>
                                    lockHolder' = "none"
          /\ (ReleaseConnection \/ ReleaseConnectionResume) => lockHolder' = "none"
          /\ (hcPc = "closing" /\ hcPc' # "closing") => lockHolder' = "none"
          /\ (adminPc = "cleanup" /\ adminPc' # "cleanup") => lockHolder' = "none"]_vars
    /\ \A c \in Callers : (pc[c] = "acquiring") ~> (pc[c] \in {"held", "idle"})

\* A get_connection is queued for the lock, which a close_all holds while
\* it awaits a cleanup().
C36_Witness ==
    /\ \E c \in Callers : pc[c] = "acquiring"
    /\ lockHolder = ADMIN
    /\ adminPc = "cleanup"

\* C37: what _get_global_uid returns is an established identity, not None,
\* whichever connection the pool gave it, a connection created for this
\* call included.
C37_EstablishedUid ==
    (delivered.req = OrmReq /\ delivered.out.kind = "return") =>
        delivered.out.text[1] \in Ids

====
